---- MODULE Spec2Model ----
(***************************************************************************)
(* A model of bumpalo_thin_slice: pointer-sized slice handles whose       *)
(* length (the Header) and elements live in one bump-arena allocation.    *)
(*                                                                         *)
(* Three handle types are modelled, one per source file:                  *)
(*   "ThinSliceMut"  src/src/thin_slice_mut.rs  exclusive, not Copy       *)
(*   "ThinSlice"     src/src/thin_slice.rs      shared, Copy              *)
(*   "LibThinSlice"  src/src/lib.rs             the crate-root ThinSlice, *)
(*                   exclusive, not Copy, with new_uninit / assume_init   *)
(*                   and the Bump extension methods alloc_thin_slice_*    *)
(*                                                                         *)
(* Memory is modelled at byte addresses: a header word lives at the       *)
(* handle's header address, element i at data(header) + i * size_of(T).   *)
(* TLC's integers are 32 bits wide, so the modelled target has a 16-bit   *)
(* usize (Rust has such targets); all layout arithmetic keeps that width. *)
(***************************************************************************)
EXTENDS Integers, Sequences, FiniteSets, TLC

(* ------------------------------ platform ------------------------------ *)

\* `type Header = usize`: the width of usize on the modelled target.
UsizeBits == 16

USIZE_MAX == 2^UsizeBits - 1

ISIZE_MAX == 2^(UsizeBits - 1) - 1

\* Layout::new::<Header>()
HeaderLayout == [size |-> UsizeBits \div 8, align |-> UsizeBits \div 8]

(* ------------------------------- bounds ------------------------------- *)

\* Small lengths run from 0 to MaxLen.
MaxLen == 2

\* Handles alive at the same time.
MaxHandles == 2

\* Bump arenas.
NumArenas == 1

\* Bytes one arena can hand out before alloc_layout fails.
ArenaCap == 12

\* Constructor calls in one behaviour (an arena never frees, so every call
\* leaves its allocation behind).
MaxCalls == 2

\* Element values are 1..MaxVal (0 is the unit value of a zero-sized type).
MaxVal == 2

(* --------------------------- element types ---------------------------- *)

\* Layout::new::<T>() of the element types handles are built for: u8 (no
\* padding after the header) and u32 (padding after the 16-bit header).
ElemTypes ==
    { [size |-> 1, align |-> 1],
      [size |-> 4, align |-> 4] }

Unit == 0

Uninit == -1

\* The values a T can hold.
ValuesOf(ty) == IF ty.size = 0 THEN {Unit} ELSE 1..MaxVal

\* A computed number seen as a T (a zero-sized type has one value).
AsT(ty, n) == IF ty.size = 0 THEN Unit ELSE (n % MaxVal) + 1

(* --------------------------- core::alloc::Layout ---------------------- *)

Err == [err |-> TRUE]

IsErr(x) == x = Err

Max(a, b) == IF a >= b THEN a ELSE b

\* Layout::from_size_align: the size rounded up to align must fit isize.
LayoutFromSizeAlign(size, align) ==
    IF size > ISIZE_MAX - (align - 1)
    THEN Err
    ELSE [size |-> size, align |-> align]

\* An array layout that forgets the element alignment (a byte array).
LayoutArrayOfBytes(ty, n) ==
    IF ty.size # 0 /\ n > (ISIZE_MAX - (ty.align - 1)) \div ty.size
    THEN Err
    ELSE [size |-> ty.size * n, align |-> 1]

\* Layout::array::<T>(n)
LayoutArray(ty, n) ==
    IF ty.size # 0 /\ n > (ISIZE_MAX - (ty.align - 1)) \div ty.size
    THEN Err
    ELSE [size |-> ty.size * n, align |-> ty.align]

\* Layout::padding_needed_for(align): wrapping round-up minus size.
PaddingNeededFor(layout, align) ==
    LET rounded == (((layout.size + align - 1) % (USIZE_MAX + 1)) \div align) * align
    IN  (rounded - layout.size) % (USIZE_MAX + 1)

\* Layout::extend(next) -> Result<(Layout, offset)>, with checked additions.
LayoutExtendUnchecked(self, next) ==
    LET pad    == PaddingNeededFor(self, next.align)
        offset == self.size + pad
    IN  [layout |-> [size  |-> (offset + next.size) % (USIZE_MAX + 1),
                     align |-> Max(self.align, next.align)],
         offset |-> offset]

LayoutExtend(self, next) ==
    LET new_align == Max(self.align, next.align)
        pad       == PaddingNeededFor(self, next.align)
        offset    == self.size + pad
        new_size  == offset + next.size
    IN  IF offset > USIZE_MAX \/ new_size > USIZE_MAX
        THEN Err
        ELSE LET l == LayoutFromSizeAlign(new_size, new_align)
             IN  IF IsErr(l) THEN Err ELSE [layout |-> l, offset |-> offset]

\* The `layout` block of `new`: Ok(layout) or the "array size is too large" panic.
NewLayout(ty, len) ==
    LET array_layout == LayoutArray(ty, len)
    IN  IF IsErr(array_layout)
        THEN Err
        ELSE LET e == LayoutExtend(HeaderLayout, array_layout)
             IN  IF IsErr(e) THEN Err ELSE e.layout

\* header_layout.extend(array_layout) in `new`, before `.0` drops the offset:
\* Err, or the layout `new` allocates and the offset of its element array.
NewExtend(ty, len) ==
    IF IsErr(LayoutArray(ty, len))
    THEN Err
    ELSE LayoutExtend(HeaderLayout, LayoutArray(ty, len))

\* The offset `data` adds to the header address.
DataOffset(ty) == LayoutExtend(HeaderLayout, ty).offset

\* An element pointer that is the header pointer itself (offset 0).
DataNoOffset(header, ty) == header

\* data::<T>(header)
data(header, ty) == header + DataOffset(ty)

(* ------------------------------- state -------------------------------- *)

VARIABLES
    emptyAddr,  \* address of the `static EMPTY: Header` of each Default impl
    used,       \* used[a]: bytes arena a has handed out
    mem,        \* address -> header word or element value, where written
    handles,    \* slot -> live handle, or NoHandle
    last,       \* the latest call: what was asked and how it ended
    ncalls,     \* constructor calls made so far
    allocs      \* header address -> the memory object it starts: the len
                \* `new` was called with and the object's size in bytes

vars == <<emptyAddr, used, mem, handles, last, ncalls, allocs>>

Kinds == {"ThinSliceMut", "ThinSlice", "LibThinSlice"}

\* The handle types that expose as_mut_slice (write access).
MutKinds == {"ThinSliceMut", "LibThinSlice"}

\* `#[derive(Copy, Clone)]` is on thin_slice.rs's ThinSlice only.
DuplicableAll(kind) == TRUE

Duplicable(kind) == kind = "ThinSlice"

Arenas == 1..NumArenas

Slots == 1..MaxHandles

NoHandle == [kind |-> "none"]

\* A handle is its header pointer; kind, ty and uninit are its Rust type
\* (ThinSlice<T>, ThinSlice<MaybeUninit<T>>), lender the handle it borrows.
Handle(kind, header, ty, uninit, lender) ==
    [kind |-> kind, header |-> header, ty |-> ty, uninit |-> uninit, lender |-> lender]

Live == {s \in Slots : handles[s] # NoHandle}

FreeSlot == CHOOSE s \in Slots \ Live : \A t \in Slots \ Live : s <= t

\* Handles that borrow handle s (as_thin_slice(&self) and copies of its result).
Borrowers(s) == {t \in Live : handles[t].lender = s}

(* ------------------------------- memory ------------------------------- *)

\* ptr::write(p, v) of a T: a zero-sized T writes no byte.
PtrWrite(m, p, ty, v) ==
    IF ty.size = 0
    THEN m
    ELSE [q \in DOMAIN m \cup {p} |-> IF q = p THEN v ELSE m[q]]

\* ptr::write(header.as_ptr(), len)
WriteHeader(m, p, n) == [q \in DOMAIN m \cup {p} |-> IF q = p THEN n ELSE m[q]]

\* Reading a T at p.
PtrRead(m, p, ty) ==
    IF ty.size = 0 THEN Unit
    ELSE IF p \in DOMAIN m THEN m[p] ELSE Uninit

\* len(header)
len(m, header) == m[header]

\* slice::from_raw_parts(data(header), len(header))
SliceFromRawParts(m, p, n, ty) == [i \in 1..n |-> PtrRead(m, p + (i - 1) * ty.size, ty)]

as_slice(m, h) == SliceFromRawParts(m, data(h.header, h.ty), len(m, h.header), h.ty)

(* ----------------------------- the arena ------------------------------ *)

ArenaBase(a) == 64 * a

AlignUp(n, align) == ((n + align - 1) \div align) * align

\* Bump::alloc_layout: a fresh aligned region, or the out-of-memory panic.
alloc_layout(u, a, layout) ==
    LET addr == AlignUp(ArenaBase(a) + u[a], layout.align)
    IN  IF addr + layout.size > ArenaBase(a) + ArenaCap
        THEN Err
        ELSE [addr |-> addr, used |-> [u EXCEPT ![a] = addr + layout.size - ArenaBase(a)]]

(* ----------------------- initialization procedures -------------------- *)

\* The closures handed to from_fn.  n is the number of calls made before.
\*   index: |i| i            tick: a FnMut counting its own calls
\*   const: |_| value        iter: |_| iter.next().expect(..)
ApplyNoExpect(f, ty, i, n) ==
    CASE f.g = "index" -> [panic |-> FALSE, v |-> AsT(ty, i)]
      [] f.g = "tick"  -> [panic |-> FALSE, v |-> AsT(ty, n + 1)]
      [] f.g = "const" -> [panic |-> FALSE, v |-> f.v]
      [] f.g = "iter"  -> IF n < Len(f.items)
                          THEN [panic |-> FALSE, v |-> f.items[n + 1]]
                          ELSE [panic |-> FALSE, v |-> Uninit]

Apply(f, ty, i, n) ==
    CASE f.g = "index" -> [panic |-> FALSE, v |-> AsT(ty, i)]
      [] f.g = "tick"  -> [panic |-> FALSE, v |-> AsT(ty, n + 1)]
      [] f.g = "const" -> [panic |-> FALSE, v |-> f.v]
      [] f.g = "iter"  -> IF n < Len(f.items)
                          THEN [panic |-> FALSE, v |-> f.items[n + 1]]
                          ELSE [panic |-> TRUE, v |-> Uninit]

\* The opposite loop order: for i in (0..len).rev()
RECURSIVE FromFnLoopRev(_, _, _, _, _, _, _)
FromFnLoopRev(i, n, f, m, dst, ty, calls) ==
    IF i >= n
    THEN [mem |-> m, calls |-> calls, panic |-> FALSE]
    ELSE LET j == n - 1 - i
             r == Apply(f, ty, j, Len(calls))
             c == Append(calls, [arg |-> j, ret |-> r.v])
         IN  IF r.panic
             THEN [mem |-> m, calls |-> c, panic |-> TRUE]
             ELSE FromFnLoopRev(i + 1, n, f, PtrWrite(m, dst + j * ty.size, ty, r.v),
                                dst, ty, c)

\* from_fn's closure: for i in 0..len { ptr::write(dst.add(i), f(i)) }
RECURSIVE FromFnLoop(_, _, _, _, _, _, _)
FromFnLoop(i, n, f, m, dst, ty, calls) ==
    IF i >= n
    THEN [mem |-> m, calls |-> calls, panic |-> FALSE]
    ELSE LET r == Apply(f, ty, i, Len(calls))
             c == Append(calls, [arg |-> i, ret |-> r.v])
         IN  IF r.panic
             THEN [mem |-> m, calls |-> c, panic |-> TRUE]
             ELSE FromFnLoop(i + 1, n, f, PtrWrite(m, dst + i * ty.size, ty, r.v),
                             dst, ty, c)

\* new_clone's closure: for (i, val) in src.iter().cloned().enumerate()
RECURSIVE CloneLoop(_, _, _, _, _)
CloneLoop(i, src, m, dst, ty) ==
    IF i >= Len(src)
    THEN m
    ELSE CloneLoop(i + 1, src, PtrWrite(m, dst + i * ty.size, ty, src[i + 1]), dst, ty)

\* ptr::copy_nonoverlapping(src.as_ptr(), dst, count), one element short
CopyShort(src, m, dst, count, ty) ==
    IF ty.size = 0
    THEN m
    ELSE LET to == {dst + k * ty.size : k \in 0..(count - 2)}
         IN  [q \in DOMAIN m \cup to |->
                 IF q \in to THEN src[((q - dst) \div ty.size) + 1] ELSE m[q]]

\* ptr::copy_nonoverlapping(src.as_ptr(), dst, count)
copy_nonoverlapping(src, m, dst, count, ty) ==
    IF ty.size = 0
    THEN m
    ELSE LET to == {dst + k * ty.size : k \in 0..(count - 1)}
         IN  [q \in DOMAIN m \cup to |->
                 IF q \in to THEN src[((q - dst) \div ty.size) + 1] ELSE m[q]]

\* init(data(header)) for the closure each constructor passes to `new`.
RunInit(init, n, m, dst, ty) ==
    CASE init.how = "clone"   ->
            [mem |-> CloneLoop(0, init.src, m, dst, ty), calls |-> <<>>, panic |-> FALSE]
      [] init.how = "copy"    ->
            [mem |-> copy_nonoverlapping(init.src, m, dst, Len(init.src), ty),
             calls |-> <<>>, panic |-> FALSE]
      [] init.how = "from_fn" -> FromFnLoop(0, n, init.f, m, dst, ty, <<>>)
      [] init.how = "uninit"  -> [mem |-> m, calls |-> <<>>, panic |-> FALSE]

(* ------------------------------ Default ------------------------------- *)

\* impl Default for ThinSliceMut: NonNull::from(&EMPTY)
ThinSliceMut_default == emptyAddr["ThinSliceMut"]

\* impl Default for ThinSlice (thin_slice.rs): NonNull::from(&EMPTY)
ThinSlice_default == emptyAddr["ThinSlice"]

\* impl Default for ThinSlice (lib.rs): NonNull::from(&EMPTY)
LibThinSlice_default == emptyAddr["LibThinSlice"]

NullHeader(kind) == 0

DefaultHeader(kind) ==
    CASE kind = "ThinSliceMut" -> ThinSliceMut_default
      [] kind = "ThinSlice"    -> ThinSlice_default
      [] kind = "LibThinSlice" -> LibThinSlice_default

(* ------------------------ the raw primitive `new` --------------------- *)

\* What a call of `new` does, from arena state u and memory m:
\*   res     "ok" | "panic_layout" | "oom" | "panic_init"
\*   header  the returned handle's header (0 when nothing is returned)
\*   req     alloc_layout was called;  inited  the init closure was called
\*   size    the byte size asked of alloc_layout
NewResult(res, header, u, m, calls, req, inited, size) ==
    [res |-> res, header |-> header, used |-> u, mem |-> m, calls |-> calls,
     req |-> req, inited |-> inited, size |-> size]

\* ThinSliceMut { header, _marker }, unless init panicked on the way.
Finish(al, layout, r) ==
    NewResult(IF r.panic THEN "panic_init" ELSE "ok",
              IF r.panic THEN 0 ELSE al.addr,
              al.used, r.mem, r.calls, TRUE, TRUE, layout.size)

\* ptr::write(header.as_ptr(), len); init(data(header));
Initialize(u, m, ty, n, init, layout, al) ==
    IF IsErr(al)
    THEN NewResult("oom", 0, u, m, <<>>, TRUE, FALSE, layout.size)
    ELSE Finish(al, layout,
                RunInit(init, n, WriteHeader(m, al.addr, n), data(al.addr, ty), ty))

\* let header = bump.alloc_layout(layout).cast::<Header>();
Allocate(u, m, a, ty, n, init, layout) ==
    IF IsErr(layout)
    THEN NewResult("panic_layout", 0, u, m, <<>>, FALSE, FALSE, 0)
    ELSE Initialize(u, m, ty, n, init, layout, alloc_layout(u, a, layout))

\* `new` without the `if len == 0` early return.
NewNoShortCircuit(kind, u, m, a, ty, n, init) ==
    Allocate(u, m, a, ty, n, init, NewLayout(ty, n))

New(kind, u, m, a, ty, n, init) ==
    IF n = 0
    THEN NewResult("ok", DefaultHeader(kind), u, m, <<>>, FALSE, FALSE, 0)
    ELSE Allocate(u, m, a, ty, n, init, NewLayout(ty, n))

\* ThinSliceMut::new (thin_slice_mut.rs)
ThinSliceMut_new(u, m, a, ty, n, init) == New("ThinSliceMut", u, m, a, ty, n, init)

\* ThinSlice::new (lib.rs)
LibThinSlice_new(u, m, a, ty, n, init) == New("LibThinSlice", u, m, a, ty, n, init)

KindNew(kind, u, m, a, ty, n, init) ==
    IF kind = "ThinSliceMut"
    THEN ThinSliceMut_new(u, m, a, ty, n, init)
    ELSE LibThinSlice_new(u, m, a, ty, n, init)

(* ------------------------------- inputs ------------------------------- *)

SeqsUpTo(S, n) == UNION {[1..k -> S] : k \in 0..n}

\* Source slices of element type ty: those whose neighbours differ.
Srcs(ty) ==
    {q \in SeqsUpTo(ValuesOf(ty), MaxLen) : \A i \in 2..Len(q) : q[i] # q[i - 1]}

\* Lengths beyond what an arena or a layout can hold, on both sides of the
\* largest layout of each element type, up to the largest usize.
BigLens ==
    {ISIZE_MAX \div 4 - 1, ISIZE_MAX \div 4, ISIZE_MAX - 3, ISIZE_MAX - 1, USIZE_MAX}

\* Lengths asked of from_fn and new_uninit (the fill wrappers, which only
\* forward to from_fn, are asked for the small ones).  A zero-sized T is
\* asked for small lengths only: any length of it fits the header-only
\* allocation, and the views would be huge.
LensOf(ty) == IF ty.size = 0 THEN 0..MaxLen ELSE (0..MaxLen) \cup BigLens

\* User closures for from_fn / alloc_thin_slice_fill_with.
UserFns == {[g |-> "index"], [g |-> "tick"]}

\* ExactSizeIterators: len() answers `reported`, next() yields `items`.
Iters(ty) == [items : Srcs(ty), reported : 0..MaxLen]

\* T::default()
DefaultValue(ty) == AsT(ty, 0)

(* ------------------------------- actions ------------------------------ *)

NoLast ==
    [op |-> "none", kind |-> "none", ty |-> [size |-> 0, align |-> 1], n |-> 0,
     res |-> "none", header |-> 0, slot |-> 0, calls |-> <<>>, req |-> FALSE,
     inited |-> FALSE, size |-> 0, src |-> <<>>, from |-> 0]

\* The region alloc_layout(layout) returned for `new(bump, len, ..)`.
Allocated(al, header, n, size) ==
    [p \in DOMAIN al \cup {header} |->
        IF p = header THEN [len |-> n, size |-> size] ELSE al[p]]

\* A constructor call: `new` runs, and its handle (if any) becomes live.
\* A constructor may be called: its handle has a slot to live in.
CanCall == Live # Slots /\ ncalls < MaxCalls

Construct(op, kind, a, ty, n, init, uninit, src) ==
    /\ ncalls' = ncalls + 1
    /\ \E r \in {KindNew(kind, used, mem, a, ty, n, init)} :
           /\ used' = r.used
           /\ mem' = r.mem
           /\ handles' = IF r.res = "ok"
                         THEN [handles EXCEPT ![FreeSlot] =
                                   Handle(kind, r.header, ty, uninit, 0)]
                         ELSE handles
           /\ last' = [op |-> op, kind |-> kind, ty |-> ty, n |-> n, res |-> r.res,
                       header |-> r.header,
                       slot |-> IF r.res = "ok" THEN FreeSlot ELSE 0,
                       calls |-> r.calls, req |-> r.req, inited |-> r.inited,
                       size |-> r.size, src |-> src, from |-> 0]
           /\ allocs' = IF r.res = "ok" /\ r.req
                        THEN Allocated(allocs, r.header, n, r.size)
                        ELSE allocs
    /\ UNCHANGED emptyAddr

ByClone(src) == [how |-> "clone", src |-> src]

ByCopy(src) == [how |-> "copy", src |-> src]

ByFn(f) == [how |-> "from_fn", f |-> f]

ByNothing == [how |-> "uninit"]

\* ThinSliceMut::new_clone(bump, src)
MutNewClone ==
    /\ CanCall
    /\ \E a \in Arenas, ty \in ElemTypes : \E src \in Srcs(ty) :
           Construct("new_clone", "ThinSliceMut", a, ty, Len(src), ByClone(src), FALSE, src)

\* ThinSliceMut::new_copy(bump, src)
MutNewCopy ==
    /\ CanCall
    /\ \E a \in Arenas, ty \in ElemTypes : \E src \in Srcs(ty) :
           Construct("new_copy", "ThinSliceMut", a, ty, Len(src), ByCopy(src), FALSE, src)

\* ThinSliceMut::from_fn(bump, len, f)
MutFromFn ==
    /\ CanCall
    /\ \E a \in Arenas, ty \in ElemTypes, f \in UserFns : \E n \in LensOf(ty) :
           Construct("from_fn", "ThinSliceMut", a, ty, n, ByFn(f), FALSE, <<>>)

\* ThinSlice::new_clone(bump, src) (lib.rs)
LibNewClone ==
    /\ CanCall
    /\ \E a \in Arenas, ty \in ElemTypes : \E src \in Srcs(ty) :
           Construct("new_clone", "LibThinSlice", a, ty, Len(src), ByClone(src), FALSE, src)

\* ThinSlice::new_copy(bump, src) (lib.rs)
LibNewCopy ==
    /\ CanCall
    /\ \E a \in Arenas, ty \in ElemTypes : \E src \in Srcs(ty) :
           Construct("new_copy", "LibThinSlice", a, ty, Len(src), ByCopy(src), FALSE, src)

\* ThinSlice::from_fn(bump, len, f) (lib.rs)
LibFromFn ==
    /\ CanCall
    /\ \E a \in Arenas, ty \in ElemTypes, f \in UserFns : \E n \in LensOf(ty) :
           Construct("from_fn", "LibThinSlice", a, ty, n, ByFn(f), FALSE, <<>>)

\* ThinSlice::<MaybeUninit<T>>::new_uninit(bump, len)
LibNewUninit ==
    /\ CanCall
    /\ \E a \in Arenas, ty \in ElemTypes : \E n \in LensOf(ty) :
           Construct("new_uninit", "LibThinSlice", a, ty, n, ByNothing, TRUE, <<>>)

\* bump.alloc_thin_slice_clone(src)
AllocThinSliceClone ==
    /\ CanCall
    /\ \E a \in Arenas, ty \in ElemTypes : \E src \in Srcs(ty) :
           Construct("alloc_thin_slice_clone", "LibThinSlice", a, ty, Len(src),
                      ByClone(src), FALSE, src)

\* bump.alloc_thin_slice_copy(src)
AllocThinSliceCopy ==
    /\ CanCall
    /\ \E a \in Arenas, ty \in ElemTypes : \E src \in Srcs(ty) :
           Construct("alloc_thin_slice_copy", "LibThinSlice", a, ty, Len(src),
                      ByCopy(src), FALSE, src)

\* bump.alloc_thin_slice_fill_clone(len, &value): from_fn(len, |_| value.clone())
AllocThinSliceFillClone ==
    /\ CanCall
    /\ \E a \in Arenas, ty \in ElemTypes : \E n \in (0..MaxLen), v \in ValuesOf(ty) :
           Construct("alloc_thin_slice_fill_clone", "LibThinSlice", a, ty, n,
                      ByFn([g |-> "const", v |-> v]), FALSE, <<v>>)

\* bump.alloc_thin_slice_fill_copy(len, value): from_fn(len, |_| value)
AllocThinSliceFillCopy ==
    /\ CanCall
    /\ \E a \in Arenas, ty \in ElemTypes : \E n \in (0..MaxLen), v \in ValuesOf(ty) :
           Construct("alloc_thin_slice_fill_copy", "LibThinSlice", a, ty, n,
                      ByFn([g |-> "const", v |-> v]), FALSE, <<v>>)

\* bump.alloc_thin_slice_fill_default(len): from_fn(len, |_| T::default())
AllocThinSliceFillDefault ==
    /\ CanCall
    /\ \E a \in Arenas, ty \in ElemTypes : \E n \in (0..MaxLen) :
           Construct("alloc_thin_slice_fill_default", "LibThinSlice", a, ty, n,
                      ByFn([g |-> "const", v |-> DefaultValue(ty)]), FALSE, <<>>)

\* bump.alloc_thin_slice_fill_iter(iter): from_fn(iter.len(), |_| iter.next().expect(..))
AllocThinSliceFillIter ==
    /\ CanCall
    /\ \E a \in Arenas, ty \in ElemTypes : \E it \in Iters(ty) :
           Construct("alloc_thin_slice_fill_iter", "LibThinSlice", a, ty, it.reported,
                      ByFn([g |-> "iter", items |-> it.items]), FALSE, it.items)

\* bump.alloc_thin_slice_fill_with(len, f): from_fn(len, f)
AllocThinSliceFillWith ==
    /\ CanCall
    /\ \E a \in Arenas, ty \in ElemTypes, f \in UserFns : \E n \in (0..MaxLen) :
           Construct("alloc_thin_slice_fill_with", "LibThinSlice", a, ty, n,
                      ByFn(f), FALSE, <<>>)

\* A handle made without `new`, put in slot s.
Made(op, s, h, from) ==
    /\ handles' = [handles EXCEPT ![s] = h]
    /\ last' = [NoLast EXCEPT !.op = op, !.kind = h.kind, !.ty = h.ty, !.res = "ok",
                              !.header = h.header, !.slot = s, !.from = from]
    /\ UNCHANGED <<emptyAddr, used, mem, ncalls, allocs>>

\* ThinSliceMut::default()
ThinSliceMutDefault ==
    /\ Live # Slots
    /\ \E ty \in ElemTypes :
           Made("default", FreeSlot,
                Handle("ThinSliceMut", DefaultHeader("ThinSliceMut"), ty, FALSE, 0), 0)

\* ThinSlice::default() (thin_slice.rs)
ThinSliceDefault ==
    /\ Live # Slots
    /\ \E ty \in ElemTypes :
           Made("default", FreeSlot,
                Handle("ThinSlice", DefaultHeader("ThinSlice"), ty, FALSE, 0), 0)

\* ThinSlice::default() (lib.rs)
LibThinSliceDefault ==
    /\ Live # Slots
    /\ \E ty \in ElemTypes :
           Made("default", FreeSlot,
                Handle("LibThinSlice", DefaultHeader("LibThinSlice"), ty, FALSE, 0), 0)

\* as_thin_slice returning the empty singleton instead of self.header.
DemoteToEmpty(h) == DefaultHeader("ThinSlice")

\* The header a demotion hands to the shared handle: `header: self.header`.
DemotedHeader(h) == h.header

\* ThinSliceMut::as_thin_slice(&self): a shared handle borrowing self.
AsThinSlice ==
    /\ Live # Slots
    /\ \E s \in Live :
           /\ handles[s].kind = "ThinSliceMut"
           /\ Made("as_thin_slice", FreeSlot,
                   Handle("ThinSlice", DemotedHeader(handles[s]), handles[s].ty, FALSE, s), s)

\* ThinSliceMut::into_thin_slice(self): self is consumed.
IntoThinSlice ==
    \E s \in Live :
        /\ handles[s].kind = "ThinSliceMut"
        /\ Borrowers(s) = {}
        /\ Made("into_thin_slice", s,
                Handle("ThinSlice", DemotedHeader(handles[s]), handles[s].ty, FALSE, 0), s)

\* A copy of a Copy handle (same borrow as the original).
CopyHandle ==
    /\ Live # Slots
    /\ \E s \in Live :
           /\ Duplicable(handles[s].kind)
           /\ Made("copy", FreeSlot, handles[s], s)

\* Every slot of the view has been written.
FullyInitialized(m, h) == \A i \in 1..len(m, h.header) : as_slice(m, h)[i] # Uninit

\* ThinSlice::<MaybeUninit<T>>::assume_init(self), called as its safety
\* contract demands: after every slot was written.
LibAssumeInit ==
    \E s \in Live :
        /\ handles[s].kind = "LibThinSlice"
        /\ handles[s].uninit
        /\ FullyInitialized(mem, handles[s])
        /\ Made("assume_init", s,
                Handle("LibThinSlice", handles[s].header, handles[s].ty, FALSE, 0), s)

\* as_mut_slice()[i] = v, with the slice's bounds check; needs `&mut self`,
\* so no shared handle borrows self.
WriteElem ==
    \E s \in Live :
        /\ handles[s].kind \in MutKinds
        /\ Borrowers(s) = {}
        /\ \E i \in 0..(len(mem, handles[s].header) - 1), v \in ValuesOf(handles[s].ty) :
               /\ mem' = PtrWrite(mem, data(handles[s].header, handles[s].ty)
                                       + i * handles[s].ty.size, handles[s].ty, v)
               /\ last' = [NoLast EXCEPT !.op = "write", !.slot = s]
        /\ UNCHANGED <<emptyAddr, used, handles, ncalls, allocs>>

\* into_slice(self): the handle is consumed, the slice it turns into is
\* slice::from_raw_parts(data(header), len(header)).
IntoSlice ==
    \E s \in Live :
        /\ Borrowers(s) = {}
        /\ handles' = [handles EXCEPT ![s] = NoHandle]
        /\ last' = [NoLast EXCEPT !.op = "into_slice", !.ty = handles[s].ty,
                                  !.header = handles[s].header]
        /\ UNCHANGED <<emptyAddr, used, mem, ncalls, allocs>>

\* A handle goes out of scope (no handle borrows it any more).
DropHandle ==
    \E s \in Live :
        /\ Borrowers(s) = {}
        /\ handles' = [handles EXCEPT ![s] = NoHandle]
        /\ last' = [NoLast EXCEPT !.op = "drop", !.slot = s]
        /\ UNCHANGED <<emptyAddr, used, mem, ncalls, allocs>>

(* --------------------------- the specification ------------------------ *)

\* The three `static EMPTY: Header = 0` are three statics, one per Default
\* impl (a static in a generic fn is one item for every T): three distinct,
\* Header-aligned addresses.
StaticPlacements ==
    { [k \in Kinds |->
          16 + HeaderLayout.size * (CASE k = "ThinSliceMut" -> 0
                                      [] k = "ThinSlice"    -> 1
                                      [] k = "LibThinSlice" -> 2)] }

Init ==
    /\ emptyAddr \in StaticPlacements
    /\ used = [a \in Arenas |-> 0]
    /\ mem = [p \in {emptyAddr[k] : k \in Kinds} |-> 0]
    /\ handles = [s \in Slots |-> NoHandle]
    /\ last = NoLast
    /\ ncalls = 0
    /\ allocs = [p \in {emptyAddr[k] : k \in Kinds} |->
                     [len |-> 0, size |-> HeaderLayout.size]]

Next ==
    \/ MutNewClone
    \/ MutNewCopy
    \/ MutFromFn
    \/ LibNewClone
    \/ LibNewCopy
    \/ LibFromFn
    \/ LibNewUninit
    \/ AllocThinSliceClone
    \/ AllocThinSliceCopy
    \/ AllocThinSliceFillClone
    \/ AllocThinSliceFillCopy
    \/ AllocThinSliceFillDefault
    \/ AllocThinSliceFillIter
    \/ AllocThinSliceFillWith
    \/ ThinSliceMutDefault
    \/ ThinSliceDefault
    \/ LibThinSliceDefault
    \/ AsThinSlice
    \/ IntoThinSlice
    \/ CopyHandle
    \/ LibAssumeInit
    \/ WriteElem
    \/ IntoSlice
    \/ DropHandle

Spec == Init /\ [][Next]_vars

(* ---------------------- the layout computations alone ----------------- *)

\* Largest element size, and largest power of two an element is aligned to.
MaxElemSize == 12

MaxAlignLog == 3

\* Layout::new::<T>() for any T: a power-of-two alignment and a size that
\* is a multiple of it (zero-sized types included).
LayoutTypes ==
    {ty \in [size : 0..MaxElemSize, align : {2^k : k \in 0..MaxAlignLog}] :
        ty.size % ty.align = 0}

\* Lengths from 1 on: small ones, those around the largest array of T, and
\* the large ones.
LayoutLens(ty) ==
    (1..MaxLen) \cup BigLens
        \cup (IF ty.size = 0 THEN {}
              ELSE {n \in {ISIZE_MAX \div ty.size - 1, ISIZE_MAX \div ty.size,
                           ISIZE_MAX \div ty.size + 1} : n >= 1})

\* A T and a len are picked; nothing has been computed yet.
LayoutInit ==
    /\ emptyAddr \in StaticPlacements
    /\ used = [a \in Arenas |-> 0]
    /\ mem = [p \in {emptyAddr[k] : k \in Kinds} |-> 0]
    /\ handles = [s \in Slots |-> NoHandle]
    /\ ncalls = 0
    /\ allocs = [p \in {emptyAddr[k] : k \in Kinds} |->
                     [len |-> 0, size |-> HeaderLayout.size]]
    /\ \E ty \in LayoutTypes : \E n \in LayoutLens(ty) :
           last = [op |-> "ask", ty |-> ty, n |-> n]

\* The layout block of `new` for (T, len), and the offset of `data::<T>`.
ComputeLayout ==
    /\ last.op = "ask"
    /\ last' = [op |-> "layout", ty |-> last.ty, n |-> last.n,
                extend |-> NewExtend(last.ty, last.n),
                layout |-> NewLayout(last.ty, last.n),
                data_offset |-> DataOffset(last.ty)]
    /\ UNCHANGED <<emptyAddr, used, mem, handles, ncalls, allocs>>

LayoutNext == ComputeLayout

LayoutSpec == LayoutInit /\ [][LayoutNext]_vars

(* ------------------------- what the claims read ----------------------- *)

\* The calls that go through `new`.
CloneCopyOps ==
    {"new_clone", "new_copy", "alloc_thin_slice_clone", "alloc_thin_slice_copy"}

FromFnOps ==
    {"from_fn", "alloc_thin_slice_fill_clone", "alloc_thin_slice_fill_copy",
     "alloc_thin_slice_fill_default", "alloc_thin_slice_fill_iter",
     "alloc_thin_slice_fill_with"}

CtorOps == CloneCopyOps \cup FromFnOps \cup {"new_uninit"}

DemoteOps == {"as_thin_slice", "into_thin_slice"}

\* <[T] as PartialEq>::eq: equal lengths, then element by element.
slice_eq(x, y) == Len(x) = Len(y) /\ \A i \in 1..Len(x) : x[i] = y[i]

\* A handle comparison that looks at the pointers, not at the views.
PtrEq(h1, h2) == h1.header = h2.header

\* impl PartialEq: self.as_slice() == other.as_slice()
eq(h1, h2) == slice_eq(as_slice(mem, h1), as_slice(mem, h2))

\* impl Hash: self.as_slice().hash(state); a slice feeds its length, then
\* each element.  The value is what the hasher is fed.
hash(h) == <<len(mem, h.header)>> \o as_slice(mem, h)

\* Handles of one Rust type whose elements can be compared.
Comparable(s, t) ==
    /\ handles[s].kind = handles[t].kind
    /\ handles[s].ty = handles[t].ty
    /\ ~handles[s].uninit
    /\ ~handles[t].uninit

\* An Option<handle> in memory: None is the null pointer (the NonNull niche).
OptionRepr(o) == IF o = NoHandle THEN 0 ELSE o.header

\* Bytes of [Header][padding][n elements], in unbounded arithmetic.
TrueSize(ty, n) ==
    HeaderLayout.size
    + ((ty.align - (HeaderLayout.size % ty.align)) % ty.align)
    + n * ty.size

\* How many T fit in a memory object of `size` bytes from the element-0
\* offset on (T is not zero-sized).
ElementSlots(ty, size) ==
    IF size < DataOffset(ty) THEN 0 ELSE (size - DataOffset(ty)) \div ty.size

\* The pointer data::<T>(header) is aligned for T and points into, or one
\* past the end of, the memory object that starts at header.
DataInObject(header, ty) ==
    /\ header \in DOMAIN allocs
    /\ data(header, ty) % ty.align = 0
    /\ data(header, ty) >= header
    /\ data(header, ty) <= header + allocs[header].size

(* -------------------------------- claims ------------------------------ *)

\* C1: all zero-length handles, shared or mutable, of any element type and
\* however obtained, hold the same header address.
C1_OneEmptyAddress ==
    \A s, t \in Live :
        (len(mem, handles[s].header) = 0 /\ len(mem, handles[t].header) = 0)
            => handles[s].header = handles[t].header

\* C2 as stated: no header address has two live mutable handles.
C2_OneMutPerAddress ==
    \A s, t \in Live :
        (s # t /\ handles[s].kind \in MutKinds /\ handles[t].kind \in MutKinds)
            => handles[s].header # handles[t].header

\* C2 as amended: no arena allocation (a header address that is not an empty
\* singleton, so a length >= 1) has two live mutable handles; nothing can be
\* written through the zero-length handles that share a singleton.
C2_OneMutPerAllocation ==
    \A s, t \in Live :
        (s # t /\ handles[s].kind \in MutKinds /\ handles[t].kind \in MutKinds
             /\ len(mem, handles[s].header) >= 1)
            => handles[s].header # handles[t].header

\* A mutable handle lent to a shared handle of the same non-empty allocation.
C2_Witness ==
    \E s, t \in Live :
        /\ handles[s].kind = "ThinSliceMut"
        /\ handles[t].kind = "ThinSlice"
        /\ handles[s].header = handles[t].header
        /\ len(mem, handles[s].header) >= 1

\* C3: a constructor call with len = 0 asks the arena for nothing, leaves
\* arena and memory as they were and never runs the init procedure (no
\* generator call, no clone loop, no iterator next).
C3_EmptyTouchesNothing ==
    [][(ncalls' # ncalls /\ last'.n = 0)
          => /\ last'.op \in CtorOps
             /\ last'.res = "ok"
             /\ ~last'.req
             /\ ~last'.inited
             /\ last'.calls = <<>>
             /\ used' = used
             /\ mem' = mem]_vars

\* fill_iter of an empty-reporting iterator that has items, on a used arena.
C3_Witness ==
    /\ last.op = "alloc_thin_slice_fill_iter"
    /\ last.n = 0
    /\ last.src # <<>>
    /\ \E a \in Arenas : used[a] > 0

\* C4: alloc_thin_slice_fill_iter of an iterator that yields fewer items
\* than it reported returns no handle; a handle it does return is fully
\* initialized.
C4_UnderYieldFails ==
    [][(ncalls' # ncalls /\ last'.op = "alloc_thin_slice_fill_iter")
          => /\ Len(last'.src) < last'.n
                 => (last'.res # "ok" /\ last'.slot = 0 /\ handles' = handles)
             /\ last'.res = "ok"
                 => (/\ len(mem', handles'[last'.slot].header) = last'.n
                     /\ FullyInitialized(mem', handles'[last'.slot]))]_vars

\* The iterator ran dry inside the generator: next() was called once more
\* than there were items, and the call panicked.
C4_Witness ==
    /\ last.op = "alloc_thin_slice_fill_iter"
    /\ Len(last.src) < last.n
    /\ last.res = "panic_init"
    /\ Len(last.calls) = Len(last.src) + 1

\* C5: a call of `new` with len >= 1 whose [Header][len elements] exceeds
\* isize::MAX bytes fails before the arena is asked, and no size asked of
\* the arena is smaller than header + padding + len * element size.
C5_OverflowRejected ==
    /\ (last.op \in CtorOps /\ last.n >= 1 /\ TrueSize(last.ty, last.n) > ISIZE_MAX)
           => (last.res = "panic_layout" /\ ~last.req /\ last.slot = 0)
    /\ (last.op \in CtorOps /\ last.req)
           => last.size >= TrueSize(last.ty, last.n)

\* The element array alone fits isize::MAX, header and padding tip it over.
C5_Witness ==
    /\ last.op \in CtorOps
    /\ last.res = "panic_layout"
    /\ TrueSize(last.ty, last.n) > ISIZE_MAX
    /\ ~IsErr(LayoutArray(last.ty, last.n))

\* C6: from_fn(bump, len, f) that returns has called f exactly len times,
\* with 0, 1, .., len-1 in that order, and element i of the handle is what
\* the call f(i) returned.
C6_FromFnInOrder ==
    (last.op \in {"from_fn", "alloc_thin_slice_fill_with"})
        => /\ last.res # "panic_init"
           /\ last.res = "ok"
                => /\ Len(last.calls) = last.n
                   /\ len(mem, handles[last.slot].header) = last.n
                   /\ Len(as_slice(mem, handles[last.slot])) = last.n
                   /\ \A i \in 1..last.n :
                          /\ last.calls[i].arg = i - 1
                          /\ as_slice(mem, handles[last.slot])[i] = last.calls[i].ret

\* A from_fn of the longest small length whose calls returned different values.
C6_Witness ==
    /\ last.op = "from_fn"
    /\ last.res = "ok"
    /\ last.n = MaxLen
    /\ last.calls[1].ret # last.calls[last.n].ret

\* C7: new_clone and new_copy (and the arena methods that forward to them)
\* return a handle whose view is the source slice: same length, same
\* elements; so both give the same result for the same source.
C7_CloneCopyFidelity ==
    (last.op \in CloneCopyOps /\ last.res = "ok")
        => /\ len(mem, handles[last.slot].header) = Len(last.src)
           /\ as_slice(mem, handles[last.slot]) = last.src

\* A copy of a slice of the longest small length.
C7_Witness ==
    /\ last.op = "new_copy"
    /\ last.res = "ok"
    /\ Len(last.src) = MaxLen

\* C8: two handles of one type are equal exactly when their views have the
\* same length and the same elements, whichever allocations they point to,
\* and equal handles feed the hasher the same input.
C8_EqIsContentEq ==
    \A s, t \in Live :
        Comparable(s, t)
            => /\ eq(handles[s], handles[t])
                   <=> /\ len(mem, handles[s].header) = len(mem, handles[t].header)
                       /\ \A i \in 1..len(mem, handles[s].header) :
                              as_slice(mem, handles[s])[i] = as_slice(mem, handles[t])[i]
               /\ eq(handles[s], handles[t]) => hash(handles[s]) = hash(handles[t])

\* Two equal non-empty handles in different allocations.
C8_Witness ==
    \E s, t \in Live :
        /\ Comparable(s, t)
        /\ handles[s].header # handles[t].header
        /\ len(mem, handles[s].header) = MaxLen
        /\ eq(handles[s], handles[t])

\* C9: as_thin_slice and into_thin_slice change neither the allocation nor
\* its contents: the shared handle has the mutable handle's header address
\* and the view the mutable handle had.
C9_DemotionPreserves ==
    [][(last'.op \in DemoteOps /\ handles' # handles)
          => /\ handles'[last'.slot].kind = "ThinSlice"
             /\ handles'[last'.slot].header = handles[last'.from].header
             /\ as_slice(mem', handles'[last'.slot]) = as_slice(mem, handles[last'.from])
             /\ mem' = mem
             /\ used' = used]_vars

\* A demoted handle of the longest small length.
C9_Witness ==
    /\ last.op \in DemoteOps
    /\ handles[last.slot].kind = "ThinSlice"
    /\ len(mem, handles[last.slot].header) = MaxLen

\* C10: a handle is one header pointer and never the null pointer, so an
\* Option of a handle can use null for None: Some(h) and None differ.
C10_NonNull ==
    \A s \in Live :
        /\ handles[s].header # 0
        /\ OptionRepr(handles[s]) = handles[s].header
        /\ OptionRepr(handles[s]) # OptionRepr(NoHandle)

\* An empty-singleton handle next to a handle promoted by assume_init.
C10_Witness ==
    /\ last.op = "assume_init"
    /\ \E s, t \in Live :
           /\ handles[s].header \in {emptyAddr[k] : k \in Kinds}
           /\ handles[t].header \notin {emptyAddr[k] : k \in Kinds}

\* C11: the length a live handle reads from its header is the len its
\* memory object was constructed with (0 for an empty singleton) and the
\* number of element slots of that object, whatever was constructed,
\* written, demoted, copied, promoted or turned into a slice since.
C11_LengthFixed ==
    \A s \in Live :
        /\ handles[s].header \in DOMAIN allocs
        /\ len(mem, handles[s].header) = allocs[handles[s].header].len
        /\ len(mem, handles[s].header)
               = ElementSlots(handles[s].ty, allocs[handles[s].header].size)

\* The last slot of a handle of the longest small length has just been
\* overwritten, next to a live handle of an empty singleton.
C11_Witness ==
    /\ last.op = "write"
    /\ handles[last.slot].ty.size > 1
    /\ len(mem, handles[last.slot].header) = MaxLen
    /\ \E t \in Live : handles[t].header \in {emptyAddr[k] : k \in Kinds}

\* C12: the element-0 offset `data::<T>` computes is, for every len >= 1
\* whose layout `new` accepts, the offset of the element array inside the
\* layout `new` allocates for len elements: it is the same for every len.
C12_OffsetIndependentOfLen ==
    (last.op = "layout")
        => /\ ~IsErr(last.extend)
               => /\ last.extend.layout = last.layout
                  /\ last.extend.offset = last.data_offset
                  /\ last.layout.size = last.data_offset + last.n * last.ty.size
           /\ \A n \in LayoutLens(last.ty) :
                  ~IsErr(NewExtend(last.ty, n))
                      => NewExtend(last.ty, n).offset = last.data_offset

\* An element type aligned more strictly than the header (padding between
\* header and element 0), at the longest small length.
C12_Witness ==
    /\ last.op = "layout"
    /\ ~IsErr(last.extend)
    /\ last.ty.align > HeaderLayout.align
    /\ last.data_offset > HeaderLayout.size
    /\ last.n = MaxLen

\* C13: the element pointer every live handle's as_slice / as_mut_slice
\* derives, and the one into_slice derived for the handle it consumed, is a
\* multiple of the element alignment and lies inside or one past the end of
\* the memory object of the header, the empty singletons included.
C13_DataAddressValid ==
    /\ \A s \in Live : DataInObject(handles[s].header, handles[s].ty)
    /\ last.op = "into_slice" => DataInObject(last.header, last.ty)

====
